---- MODULE Spec2Model ----
(***************************************************************************)
(* vmkite: the buildkite job source (package buildkite) and the vSphere    *)
(* session / VM creation (package vsphere).                                *)
(*                                                                         *)
(* Go strings are modelled as sequences of one-character strings, so that  *)
(* strings.SplitN and string concatenation are computed, not assumed.      *)
(* The empty Go string "" is the empty sequence << >>.                     *)
(***************************************************************************)
EXTENDS Integers, Sequences, FiniteSets, TLC

\* ------------------------------------------------------------------ bounds
\* longest list of agent query rules handed to the decoders
MaxRules == 3
\* most jobs in one reply of the CI service
MaxJobs == 3
\* most keys in params.GuestInfo
MaxExtras == 2
\* longest device list handed to addDisk on its own
MaxDevices == 2
\* most operations one caller starts on the session
MaxOps == 2
\* most firings of the keepalive timer
MaxProbes == 2
\* most server-side expiries of the session
MaxExpiries == 1

VARIABLES
  \* package buildkite: one call of one exported function per behaviour
  bkIn,        \* the call and what the CI service answers to it
  bkDone,      \* the functions that have returned
  retMetadata,   \* result of parseAgentQueryRules
  retVmdk,       \* result of vmdkFromAgentQueryRules
  retJobs,       \* result of VmkiteJobs: (jobs, err)
  retFirstJobs,  \* result of the first definition of VmkiteJobs: (jobs, err)
  retFinished,   \* result of IsFinished: (finished, err)
  \* package vsphere, the VM spec builder: one call per behaviour
  bdIn,          \* the call, the session cache and the outcomes of its lookups
  bdDone,        \* the functions that have returned
  retSpec,       \* result of createConfigSpec: (cs, err), and the cache after it
  retDisk,       \* result of addDisk: (devices, err)
  \* package vsphere, the session
  sess,          \* "new", "authenticated" or "failed": the outcome of NewSession
  loginCalls,    \* calls of s.client.Login made so far
  serverAuth,    \* the server holds the session as authenticated
  expiries,      \* server-side expiries so far
  connectErr,    \* the error NewSession returned ("none" before it returns)
  kaInstalled,   \* connect has installed the keepalive handler on the client
  vs,            \* Session.finder and Session.datacenter (0 / Nil when nil)
  finders,       \* calls of find.NewFinder (and finder.DefaultDatacenter) so far
  cacheWrites,   \* assignments of vs.datacenter and vs.finder so far
  requests,      \* the creation requests handed to folder.CreateVM so far
  kaPc,          \* the keepalive handler: "idle" or "login"
  probes,        \* runs of the keepalive handler so far
  kaErr,         \* the error of the last GetCurrentTime probe
  kaRet,         \* what the keepalive handler returned last ("none" before)
  notAuthProbes, \* probes that failed with a NotAuthenticated fault
  reLogins,      \* login attempts made by the keepalive handler
  kaLoginErr,    \* the error of the last login of the keepalive handler ("none" before)
  callers,       \* the goroutines that use the session
  pc,            \* per caller: the step its operation is at
  op,            \* per caller: the operation it runs or ran last
  arg,           \* per caller: the params of CreateVM
  local,         \* per caller: finder, dc, folder, configSpec of the call
  ret,           \* per caller: what the last operation returned: (val, err)
  log,           \* per caller: the steps of the operation, in order
  nops           \* per caller: operations started

bkVars == <<bkIn, bkDone, retMetadata, retVmdk, retJobs, retFirstJobs, retFinished>>
bdVars == <<bdIn, bdDone, retSpec, retDisk>>
srvVars == <<sess, loginCalls, serverAuth, expiries, connectErr, kaInstalled>>
kaVars == <<kaPc, probes, kaErr, kaRet, notAuthProbes, reLogins, kaLoginErr>>
callVars == <<pc, op, arg, local, ret, log, nops>>
vsVars == <<srvVars, vs, finders, cacheWrites, requests, kaVars, callers, callVars>>
vars == <<bkVars, bdVars, vsVars>>

\* ----------------------------------------------------------------- helpers
SeqsUpTo(S, n) == UNION {[1..k -> S] : k \in 0..n}

\* ------------------------------------------------------- package buildkite
\* the two recognized keys, as spelled in the switch of parseAgentQueryRules
VmdkKey == <<"v", "m", "k", "i", "t", "e", "-", "v", "m", "d", "k">>
GuestidKey == <<"v", "m", "k", "i", "t", "e", "-", "g", "u", "e", "s", "t", "i", "d">>

\* index of the first occurrence of character c in s, 0 when there is none
Index(s, c) ==
  IF \E i \in 1..Len(s) : s[i] = c
  THEN CHOOSE i \in 1..Len(s) : s[i] = c /\ \A j \in 1..(i - 1) : s[j] # c
  ELSE 0

\* a plausible slip: split at the last separator instead of the first
SplitNLast(s, sep, n) ==
  LET last == IF \E i \in 1..Len(s) : s[i] = sep
              THEN CHOOSE i \in 1..Len(s) : s[i] = sep /\ \A j \in (i + 1)..Len(s) : s[j] # sep
              ELSE 0
  IN IF n <= 1 \/ last = 0
     THEN <<s>>
     ELSE <<SubSeq(s, 1, last - 1), SubSeq(s, last + 1, Len(s))>>

\* strings.SplitN(s, sep, n) for n > 0 and a one-character separator: at most
\* n substrings, the last one being the unsplit remainder
RECURSIVE SplitN(_, _, _)
SplitN(s, sep, n) ==
  LET i == Index(s, sep)
  IN IF n <= 1 \/ i = 0
     THEN <<s>>
     ELSE <<SubSeq(s, 1, i - 1)>> \o SplitN(SubSeq(s, i + 1, Len(s)), sep, n - 1)

\* VmkiteMetadata{}: both fields the empty string
EmptyMetadata == [VMDK |-> <<>>, GuestID |-> <<>>]

\* one iteration of the loop of parseAgentQueryRules
parseRule(metadata, r) ==
  LET parts == SplitN(r, "=", 2)
  IN IF Len(parts) = 2
     THEN CASE parts[1] = VmdkKey -> [metadata EXCEPT !.VMDK = parts[2]]
            [] parts[1] = GuestidKey -> [metadata EXCEPT !.GuestID = parts[2]]
            [] OTHER -> metadata
     ELSE metadata

RECURSIVE parseLoop(_, _)
parseLoop(rules, metadata) ==
  IF rules = <<>>
  THEN metadata
  ELSE parseLoop(Tail(rules), parseRule(metadata, Head(rules)))

\* a plausible slip: keep the first value of a key (stop assigning once set)
RECURSIVE parseFirstWins(_)
parseFirstWins(rules) ==
  IF rules = <<>>
  THEN EmptyMetadata
  ELSE LET rest == parseFirstWins(Tail(rules))
           parts == SplitN(Head(rules), "=", 2)
       IN IF Len(parts) = 2
          THEN CASE parts[1] = VmdkKey -> [rest EXCEPT !.VMDK = parts[2]]
                 [] parts[1] = GuestidKey -> [rest EXCEPT !.GuestID = parts[2]]
                 [] OTHER -> rest
          ELSE rest

parseAgentQueryRules(rules) == parseLoop(rules, EmptyMetadata)

\* the decoder of the first definition: returns at the first vmkite-vmdk rule
RECURSIVE vmdkFromAgentQueryRules(_)
vmdkFromAgentQueryRules(rules) ==
  IF rules = <<>>
  THEN <<>>
  ELSE LET parts == SplitN(Head(rules), "=", 2)
       IN IF Len(parts) = 2 /\ parts[1] = VmdkKey
          THEN parts[2]
          ELSE vmdkFromAgentQueryRules(Tail(rules))

\* strconv.Itoa for the non-negative build numbers
Digits == <<"0", "1", "2", "3", "4", "5", "6", "7", "8", "9">>
RECURSIVE Itoa(_)
Itoa(n) == IF n < 10 THEN <<Digits[n + 1]>> ELSE Itoa(n \div 10) \o <<Digits[(n % 10) + 1]>>

\* the filter of VmkiteJobs
keepJob(metadata) == metadata.GuestID # <<>> /\ metadata.VMDK # <<>>

\* the inner loop of VmkiteJobs over build.Jobs
RECURSIVE jobsOfBuild(_, _)
jobsOfBuild(build, js) ==
  IF js = <<>>
  THEN <<>>
  ELSE LET job == Head(js)
           metadata == parseAgentQueryRules(job.AgentQueryRules)
       IN (IF keepJob(metadata)
           THEN <<[ID |-> job.ID,
                   BuildNumber |-> Itoa(build.Number),
                   Pipeline |-> build.Pipeline,
                   Metadata |-> metadata]>>
           ELSE <<>>) \o jobsOfBuild(build, Tail(js))

\* a plausible slip: the jobs of a later build are put before those of an
\* earlier one
RECURSIVE jobsOfBuildsReversed(_)
jobsOfBuildsReversed(builds) ==
  IF builds = <<>>
  THEN <<>>
  ELSE jobsOfBuildsReversed(Tail(builds)) \o jobsOfBuild(Head(builds), Head(builds).Jobs)

\* the outer loop of VmkiteJobs over builds
RECURSIVE jobsOfBuilds(_)
jobsOfBuilds(builds) ==
  IF builds = <<>>
  THEN <<>>
  ELSE jobsOfBuild(Head(builds), Head(builds).Jobs) \o jobsOfBuilds(Tail(builds))

\* VmkiteJobs on a reply of Builds.ListByOrg: (jobs, err); nil is << >>
VmkiteJobs(reply) ==
  IF reply.err
  THEN [jobs |-> <<>>, err |-> TRUE]
  ELSE [jobs |-> jobsOfBuilds(reply.builds), err |-> FALSE]

\* the first definition of VmkiteJobs: VmkiteJob{ID, VMDK}
RECURSIVE firstJobsOfBuild(_)
firstJobsOfBuild(js) ==
  IF js = <<>>
  THEN <<>>
  ELSE LET job == Head(js)
           vmdk == vmdkFromAgentQueryRules(job.AgentQueryRules)
       IN (IF vmdk # <<>> THEN <<[ID |-> job.ID, VMDK |-> vmdk]>> ELSE <<>>)
          \o firstJobsOfBuild(Tail(js))

RECURSIVE firstJobsOfBuilds(_)
firstJobsOfBuilds(builds) ==
  IF builds = <<>>
  THEN <<>>
  ELSE firstJobsOfBuild(Head(builds).Jobs) \o firstJobsOfBuilds(Tail(builds))

VmkiteJobsFirst(reply) ==
  IF reply.err
  THEN [jobs |-> <<>>, err |-> TRUE]
  ELSE [jobs |-> firstJobsOfBuilds(reply.builds), err |-> FALSE]

\* the states IsFinished treats as not finished
ActiveStates == {"scheduled", "running"}

\* a plausible slip: only "running" counts as not finished
isActiveRunningOnly(state) == state = "running"

isActive(state) == state \in ActiveStates

\* the loop of IsFinished over build.Jobs: returns at the first job with job.ID
RECURSIVE scanFinished(_, _)
scanFinished(js, id) ==
  IF js = <<>>
  THEN FALSE
  ELSE IF Head(js).ID = id
       THEN ~isActive(Head(js).State)
       ELSE scanFinished(Tail(js), id)

\* IsFinished on a reply of Builds.Get: (finished, err)
IsFinished(job, reply) ==
  IF reply.err
  THEN [finished |-> FALSE, err |-> TRUE]
  ELSE [finished |-> scanFinished(reply.build.Jobs, job.ID), err |-> FALSE]

\* ---------------------------------------------------------- package vsphere
\* In this package only the extra-configuration keys are built by string
\* concatenation, so only they are character sequences; every other string is
\* copied or compared with "" and is a plain string.

\* a nil pointer, and the nil error
Nil == "nil"

\* soap.IsSoapFault / soap.ToSoapFault(err).VimFault(): the errors of the model
\* are "NotAuthenticated" and "NoPermission" (SOAP faults) and plain errors
IsSoapFault(err) == err \in {"NotAuthenticated", "NoPermission"}
VimFault(err) == err

\* a plausible slip: every SOAP fault counts as an expired session
isNotAuthenticatedAnyFault(err) == IsSoapFault(err)

isNotAuthenticated(err) == IsSoapFault(err) /\ VimFault(err) = "NotAuthenticated"

\* a plausible slip: the keepalive handler hands its failure to the timer
keepaliveReturnErr(err, loginErr) == IF loginErr # Nil THEN loginErr ELSE err

\* what the keepalive handler returns once the probe has failed with err and
\* its login, if it made one, with loginErr: "return nil"
keepaliveReturn(err, loginErr) == Nil

\* Session{datacenter, finder}: the session-cached values
NoCache == [finder |-> 0, datacenter |-> Nil]

\* a plausible slip: the cached finder is never found
finderNeverCached(s) == FALSE

\* the test of getFinder, "vs.finder == nil", negated
finderCached(s) == s.finder # 0

\* getFinder with the steps run together: s is the cache, dcErr the outcome of
\* finder.DefaultDatacenter should it be called, f the finder find.NewFinder makes
getFinder(s, dcErr, f) ==
  IF ~finderCached(s)
  THEN IF dcErr # Nil
       THEN [s |-> s, finder |-> 0, err |-> dcErr]
       ELSE [s |-> [finder |-> f, datacenter |-> "dc"], finder |-> f, err |-> Nil]
  ELSE [s |-> s, finder |-> s.finder, err |-> Nil]

\* object.VirtualDeviceList.NewKey: one below the least key, at most -201
NewKey(l) ==
  LET keys == {l[i].Key : i \in 1..Len(l)} \cup {-200}
  IN (CHOOSE k \in keys : \A j \in keys : k <= j) - 1

SCSITypes == {"VirtualLsiLogicController", "ParaVirtualSCSIController"}

\* addEthernet: the finder, the network named "*" + label, its backing, a
\* vmxnet3 card with a generated address
addEthernet(devices, s, o, label) ==
  LET g == getFinder(s, o.dc, o.newFinder)
  IN IF g.err # Nil THEN [devices |-> <<>>, err |-> g.err, s |-> g.s]
     ELSE IF o.net # Nil THEN [devices |-> <<>>, err |-> o.net, s |-> g.s]
     ELSE IF o.backing # Nil THEN [devices |-> <<>>, err |-> o.backing, s |-> g.s]
     ELSE [devices |-> Append(devices,
                              [Type |-> "VirtualVmxnet3",
                               Key |-> -1,
                               Backing |-> <<"*", label>>,
                               AddressType |-> "generated"]),
           err |-> Nil,
           s |-> g.s]

\* a plausible slip: the controller is put at the head of the list
addSCSIAtHead(devices) ==
  [devices |-> <<[Type |-> "VirtualLsiLogicController",
                  Key |-> NewKey(<<>>),
                  SharedBus |-> "noSharing"]>> \o devices,
   err |-> Nil]

\* addSCSI: CreateSCSIController("scsi") on the list of controller types
addSCSI(devices) ==
  [devices |-> Append(devices,
                      [Type |-> "VirtualLsiLogicController",
                       Key |-> NewKey(<<>>),
                       SharedBus |-> "noSharing"]),
   err |-> Nil]

\* devices.FindDiskController("scsi"): the first SCSI controller of the list
FindDiskController(devices) ==
  LET found == {i \in 1..Len(devices) : devices[i].Type \in SCSITypes}
  IN IF found = {}
     THEN [controller |-> Nil, index |-> 0, err |-> "no available SCSI controller"]
     ELSE LET i == CHOOSE i \in found : \A j \in found : i <= j
          IN [controller |-> devices[i], index |-> i, err |-> Nil]

\* a plausible slip: the error of FindDiskController is dropped and the disk
\* is appended without a controller
addDiskUnchecked(devices, s, o, params) ==
  LET g == getFinder(s, o.dc, o.newFinder)
      c == FindDiskController(devices)
  IN IF g.err # Nil THEN [devices |-> <<>>, err |-> g.err, s |-> g.s]
     ELSE IF o.src # Nil THEN [devices |-> <<>>, err |-> o.src, s |-> g.s]
     ELSE [devices |-> Append(devices,
                              [Type |-> "VirtualDisk",
                               Key |-> -1,
                               ControllerKey |-> IF c.err = Nil THEN c.controller.Key ELSE 0,
                               FileName |-> <<"[", params.SrcDiskDataStore, "] ", params.SrcDiskPath>>,
                               Datastore |-> params.SrcDiskDataStore,
                               ThinProvisioned |-> TRUE,
                               DiskMode |-> "independent_nonpersistent"]),
           err |-> Nil,
           s |-> g.s]

\* addDisk: the finder, the source datastore, the SCSI controller of the list
\* so far, a disk on it (devices.CreateDisk assigns the controller's key)
addDisk(devices, s, o, params) ==
  LET g == getFinder(s, o.dc, o.newFinder)
      c == FindDiskController(devices)
  IN IF g.err # Nil THEN [devices |-> <<>>, err |-> g.err, s |-> g.s]
     ELSE IF o.src # Nil THEN [devices |-> <<>>, err |-> o.src, s |-> g.s]
     ELSE IF c.err # Nil THEN [devices |-> <<>>, err |-> c.err, s |-> g.s]
     ELSE [devices |-> Append(devices,
                              [Type |-> "VirtualDisk",
                               Key |-> -1,
                               ControllerKey |-> c.controller.Key,
                               FileName |-> <<"[", params.SrcDiskDataStore, "] ", params.SrcDiskPath>>,
                               Datastore |-> params.SrcDiskDataStore,
                               ThinProvisioned |-> TRUE,
                               DiskMode |-> "independent_nonpersistent"]),
           err |-> Nil,
           s |-> g.s]

\* addUSB
addUSB(devices) ==
  [devices |-> Append(devices,
                      [Type |-> "VirtualUSBController",
                       Key |-> 0,
                       AutoConnectDevices |-> TRUE,
                       EhciEnabled |-> TRUE]),
   err |-> Nil]

\* devices.ConfigSpec(VirtualDeviceConfigSpecOperationAdd)
DeviceChange(devices) == [i \in 1..Len(devices) |-> [Operation |-> "add", Device |-> devices[i]]]

TokenKey == <<"g", "u", "e", "s", "t", "i", "n", "f", "o", ".", "v", "m", "k", "i", "t", "e", "-", "b", "u", "i", "l", "d", "k", "i", "t", "e", "-", "a", "g", "e", "n", "t", "-", "t", "o", "k", "e", "n">>
NameKey == <<"g", "u", "e", "s", "t", "i", "n", "f", "o", ".", "v", "m", "k", "i", "t", "e", "-", "n", "a", "m", "e">>
VmdkInfoKey == <<"g", "u", "e", "s", "t", "i", "n", "f", "o", ".", "v", "m", "k", "i", "t", "e", "-", "v", "m", "d", "k">>
GuestinfoPrefix == <<"g", "u", "e", "s", "t", "i", "n", "f", "o", ".">>
PciSlotKey == <<"e", "t", "h", "e", "r", "n", "e", "t", "0", ".", "p", "c", "i", "S", "l", "o", "t", "N", "u", "m", "b", "e", "r">>

\* a plausible slip: the caller-supplied entries replace the fixed ones
extraConfigNoFixed(params, order) ==
  (IF params.GuestInfo.isNil
   THEN <<[Key |-> TokenKey, Value |-> params.BuildkiteAgentToken]>>
   ELSE [i \in 1..Len(order) |->
           [Key |-> GuestinfoPrefix \o order[i], Value |-> params.GuestInfo.m[order[i]]]])
  \o <<[Key |-> PciSlotKey, Value |-> "32"]>>

\* the extra configuration of createConfigSpec; order is the order in which
\* the range over the map params.GuestInfo yields its keys
extraConfig(params, order) ==
  <<[Key |-> TokenKey, Value |-> params.BuildkiteAgentToken],
    [Key |-> NameKey, Value |-> params.Name],
    [Key |-> VmdkInfoKey, Value |-> params.SrcDiskPath]>>
  \o (IF params.GuestInfo.isNil
      THEN <<>>
      ELSE [i \in 1..Len(order) |->
              [Key |-> GuestinfoPrefix \o order[i], Value |-> params.GuestInfo.m[order[i]]]])
  \o <<[Key |-> PciSlotKey, Value |-> "32"]>>

\* the zero types.VirtualMachineConfigSpec of the named result cs
ZeroConfigSpec ==
  [DeviceChange |-> <<>>, ExtraConfig |-> <<>>, Files |-> Nil, GuestId |-> "",
   MemoryMB |-> 0, Name |-> "", NestedHVEnabled |-> Nil, NumCPUs |-> 0,
   NumCoresPerSocket |-> 0, VirtualICH7MPresent |-> Nil, VirtualSMCPresent |-> Nil]

\* a plausible slip: the devices built before the failure are handed back
returnErrPartial(err, s2, sofar) ==
  [cs |-> [ZeroConfigSpec EXCEPT !.DeviceChange = DeviceChange(sofar)],
   err |-> err, s |-> s2, devices |-> sofar]

\* the bare "return" of createConfigSpec after a failure: err and the named
\* result cs, which nothing has assigned yet; sofar, the devices built before
\* the failure, are a local that is dropped
returnErr(err, s2, sofar) == [cs |-> ZeroConfigSpec, err |-> err, s |-> s2, devices |-> <<>>]

\* createConfigSpec; o holds the outcomes of the lookups it makes, in order
createConfigSpec(s, params, o) ==
  LET e == addEthernet(<<>>, s, o, params.NetworkLabel)
      c == addSCSI(e.devices)
      d == addDisk(c.devices, e.s, o, params)
      u == addUSB(d.devices)
      g == getFinder(d.s, o.dc, o.newFinder)
  IN IF e.err # Nil THEN returnErr(e.err, e.s, <<>>)
     ELSE IF c.err # Nil THEN returnErr(c.err, e.s, e.devices)
     ELSE IF d.err # Nil THEN returnErr(d.err, d.s, c.devices)
     ELSE IF u.err # Nil THEN returnErr(u.err, d.s, d.devices)
     ELSE IF g.err # Nil THEN returnErr(g.err, g.s, u.devices)
     ELSE IF o.dst # Nil THEN returnErr(o.dst, g.s, u.devices)
     ELSE [cs |-> [DeviceChange |-> DeviceChange(u.devices),
                   ExtraConfig |-> extraConfig(params, o.order),
                   Files |-> [VmPathName |-> <<"[", params.DatastoreName, "]">>],
                   GuestId |-> params.GuestID,
                   MemoryMB |-> params.MemoryMB,
                   Name |-> params.Name,
                   NestedHVEnabled |-> TRUE,
                   NumCPUs |-> params.NumCPUs,
                   NumCoresPerSocket |-> params.NumCoresPerSocket,
                   VirtualICH7MPresent |-> TRUE,
                   VirtualSMCPresent |-> TRUE],
           err |-> Nil,
           s |-> g.s,
           devices |-> u.devices]

\* ---------------------------------------------- inputs of package buildkite
\* key=value rules (values with a further "=", empty values, a key that only
\* starts like a recognized one, an empty key) and rules without any "="
Rules ==
  {VmdkKey \o <<"=">> \o v : v \in {<<>>, <<"a">>, <<"b">>, <<"a", "=", "b">>}} \cup
  {GuestidKey \o <<"=">> \o v : v \in {<<"a">>, <<"b">>}} \cup
  {<<"o", "=", "a">>, VmdkKey \o <<"x", "=", "a">>, <<"=", "a">>, VmdkKey}

\* the agent query rules of the jobs of a listing
JobRules ==
  {<<VmdkKey \o <<"=", "a">>, GuestidKey \o <<"=", "b">>>>,
   <<VmdkKey \o <<"=", "a">>>>,
   <<GuestidKey \o <<"=", "b">>, <<"o", "=", "a">>>>,
   <<VmdkKey \o <<"=">>, GuestidKey \o <<"=", "b">>>>}

JobIDs == {"j1", "j2"}
JobStates == {"scheduled", "running", "passed"}

\* a build of a listing; the jobs of a listing have distinct ids
ListedBuild(n, rs, from) ==
  [Number |-> n,
   Pipeline |-> "p",
   Jobs |-> [k \in 1..Len(rs) |-> [ID |-> <<"j">> \o Itoa(from + k), AgentQueryRules |-> rs[k]]]]

\* a listing of two builds: the first k jobs and the remaining ones
ListReplies ==
  {[err |-> TRUE, builds |-> <<>>], [err |-> FALSE, builds |-> <<>>]} \cup
  {[err |-> FALSE,
    builds |-> <<ListedBuild(7, SubSeq(x[1], 1, x[2]), 0),
                 ListedBuild(12, SubSeq(x[1], x[2] + 1, Len(x[1])), x[2])>>] :
     x \in {y \in SeqsUpTo(JobRules, MaxJobs) \X (0..MaxJobs) : y[2] <= Len(y[1])}}

GetReplies ==
  {[err |-> TRUE, build |-> [Jobs |-> <<>>]]} \cup
  {[err |-> FALSE, build |-> [Jobs |-> js]] :
     js \in SeqsUpTo([ID : JobIDs, State : JobStates], MaxJobs)}

NoReply == [err |-> TRUE, builds |-> <<>>]
NoGet == [err |-> TRUE, build |-> [Jobs |-> <<>>]]

BkCalls ==
  {[op |-> "decode", rules |-> rs, list |-> NoReply, job |-> "none", get |-> NoGet] :
     rs \in SeqsUpTo(Rules, MaxRules)} \cup
  {[op |-> "list", rules |-> <<>>, list |-> l, job |-> "none", get |-> NoGet] :
     l \in ListReplies} \cup
  {[op |-> "finished", rules |-> <<>>, list |-> NoReply, job |-> j, get |-> g] :
     j \in JobIDs \cup {"j3"}, g \in GetReplies}

NoCall == [op |-> "none", rules |-> <<>>, list |-> NoReply, job |-> "none", get |-> NoGet]

BkIdle ==
  /\ bkDone = {}
  /\ retMetadata = EmptyMetadata
  /\ retVmdk = <<>>
  /\ retJobs = [jobs |-> <<>>, err |-> FALSE]
  /\ retFirstJobs = [jobs |-> <<>>, err |-> FALSE]
  /\ retFinished = [finished |-> FALSE, err |-> FALSE]

\* --------------------------------------------- actions of package buildkite
CallParseAgentQueryRules ==
  /\ bkIn.op = "decode"
  /\ "parse" \notin bkDone
  /\ retMetadata' = parseAgentQueryRules(bkIn.rules)
  /\ bkDone' = bkDone \cup {"parse"}
  /\ UNCHANGED <<bkIn, retVmdk, retJobs, retFirstJobs, retFinished, bdVars, vsVars>>

CallVmdkFromAgentQueryRules ==
  /\ bkIn.op = "decode"
  /\ "vmdk" \notin bkDone
  /\ retVmdk' = vmdkFromAgentQueryRules(bkIn.rules)
  /\ bkDone' = bkDone \cup {"vmdk"}
  /\ UNCHANGED <<bkIn, retMetadata, retJobs, retFirstJobs, retFinished, bdVars, vsVars>>

CallVmkiteJobs ==
  /\ bkIn.op = "list"
  /\ "jobs" \notin bkDone
  /\ retJobs' = VmkiteJobs(bkIn.list)
  /\ bkDone' = bkDone \cup {"jobs"}
  /\ UNCHANGED <<bkIn, retMetadata, retVmdk, retFirstJobs, retFinished, bdVars, vsVars>>

CallVmkiteJobsFirst ==
  /\ bkIn.op = "list"
  /\ "firstJobs" \notin bkDone
  /\ retFirstJobs' = VmkiteJobsFirst(bkIn.list)
  /\ bkDone' = bkDone \cup {"firstJobs"}
  /\ UNCHANGED <<bkIn, retMetadata, retVmdk, retJobs, retFinished, bdVars, vsVars>>

CallIsFinished ==
  /\ bkIn.op = "finished"
  /\ "finished" \notin bkDone
  /\ retFinished' = IsFinished([ID |-> bkIn.job], bkIn.get)
  /\ bkDone' = bkDone \cup {"finished"}
  /\ UNCHANGED <<bkIn, retMetadata, retVmdk, retJobs, retFirstJobs, bdVars, vsVars>>


\* ------------------------------------------------ inputs of the spec builder
Cached == [finder |-> 1, datacenter |-> "dc"]

\* params.GuestInfo: nil, or a map with at most MaxExtras keys
ExtraKeys == {<<"a">>, <<"b">>, <<"v", "m", "k", "i", "t", "e", "-", "n", "a", "m", "e">>}
GuestInfos ==
  {[isNil |-> TRUE, m |-> <<>>]} \cup
  {[isNil |-> FALSE, m |-> [k \in K |-> "v"]] :
     K \in {X \in SUBSET ExtraKeys : Cardinality(X) <= MaxExtras}}

\* the orders in which a range over a map with these keys can yield them
Orders(K) == {q \in [1..Cardinality(K) -> K] : \A i, j \in 1..Cardinality(K) : i # j => q[i] # q[j]}
KeysOf(gi) == IF gi.isNil THEN {} ELSE DOMAIN gi.m

BaseParams ==
  [BuildkiteAgentToken |-> "token", ClusterPath |-> "/dc/host/cluster",
   VirtualMachinePath |-> "/dc/vm", DatastoreName |-> "ds1",
   GuestID |-> "darwin14_64Guest", MemoryMB |-> 4096, Name |-> "vm1",
   NetworkLabel |-> "net", NumCPUs |-> 4, NumCoresPerSocket |-> 1,
   SrcDiskDataStore |-> "ds0", SrcDiskPath |-> "/img.vmdk",
   GuestInfo |-> [isNil |-> TRUE, m |-> <<>>]]

BuildParams ==
  {[BaseParams EXCEPT !.GuestID = g, !.SrcDiskPath = p, !.GuestInfo = gi] :
     g \in {"", "darwin14_64Guest"}, p \in {"", "/img.vmdk"}, gi \in GuestInfos}

\* the outcomes of the lookups of one call: all succeed, or one of them fails
\* (finder.DefaultDatacenter is called only when no finder is cached)
Outcomes(s, steps, order) ==
  {[dc |-> IF f = "dc" THEN "no default datacenter" ELSE Nil,
    newFinder |-> 1,
    net |-> IF f = "net" THEN "network not found" ELSE Nil,
    backing |-> IF f = "backing" THEN "no backing" ELSE Nil,
    src |-> IF f = "src" THEN "datastore not found" ELSE Nil,
    dst |-> IF f = "dst" THEN "datastore not found" ELSE Nil,
    order |-> order] :
     f \in ({"none"} \cup steps) \ (IF s.finder = 0 THEN {} ELSE {"dc"})}

\* device lists as a caller of addDisk may have built them
DeviceCandidates ==
  {[Type |-> "VirtualVmxnet3", Key |-> -1, Backing |-> <<"*", "net">>, AddressType |-> "generated"],
   [Type |-> "VirtualLsiLogicController", Key |-> -201, SharedBus |-> "noSharing"],
   [Type |-> "ParaVirtualSCSIController", Key |-> -202, SharedBus |-> "noSharing"],
   [Type |-> "VirtualIDEController", Key |-> 200],
   [Type |-> "VirtualUSBController", Key |-> 0, AutoConnectDevices |-> TRUE, EhciEnabled |-> TRUE]}

BdCalls ==
  {[op |-> "spec", s |-> s, params |-> p, o |-> o, devices |-> <<>>] :
     s \in {NoCache, Cached},
     p \in BuildParams,
     o \in UNION {Outcomes(NoCache, {"dc", "net", "backing", "src", "dst"}, q) :
                    q \in UNION {Orders(KeysOf(gi)) : gi \in GuestInfos}}} \cup
  {[op |-> "disk", s |-> s, params |-> BaseParams, o |-> o, devices |-> ds] :
     s \in {NoCache, Cached},
     o \in Outcomes(NoCache, {"dc", "src"}, <<>>),
     ds \in SeqsUpTo(DeviceCandidates, MaxDevices)}

\* a call is one the program can make: the order is an order of the map's own
\* keys, and the datacenter is resolved only when no finder is cached
BdCallOK(c) ==
  /\ c.o.order \in Orders(KeysOf(c.params.GuestInfo))
  /\ c.s.finder # 0 => c.o.dc = Nil

NoBdCall == [op |-> "none", s |-> NoCache, params |-> BaseParams,
             o |-> CHOOSE o \in Outcomes(NoCache, {}, <<>>) : TRUE, devices |-> <<>>]

BdIdle ==
  /\ bdDone = {}
  /\ retSpec = [cs |-> ZeroConfigSpec, err |-> Nil, s |-> NoCache, devices |-> <<>>]
  /\ retDisk = [devices |-> <<>>, err |-> Nil, s |-> NoCache]

\* ------------------------------------------------ actions of the spec builder
CallCreateConfigSpec ==
  /\ bdIn.op = "spec"
  /\ "spec" \notin bdDone
  /\ retSpec' = createConfigSpec(bdIn.s, bdIn.params, bdIn.o)
  /\ bdDone' = bdDone \cup {"spec"}
  /\ UNCHANGED <<bdIn, retDisk, bkVars, vsVars>>

CallAddDisk ==
  /\ bdIn.op = "disk"
  /\ "disk" \notin bdDone
  /\ retDisk' = addDisk(bdIn.devices, bdIn.s, bdIn.o, bdIn.params)
  /\ bdDone' = bdDone \cup {"disk"}
  /\ UNCHANGED <<bdIn, retSpec, bkVars, vsVars>>

\* --------------------------------------------------------------- the session
Callers == {"c1", "c2"}

\* the params callers pass to CreateVM
SessParams ==
  {[BaseParams EXCEPT !.GuestID = g, !.SrcDiskPath = p] :
     g \in {"", "darwin14_64Guest"}, p \in {"", "/img.vmdk"}} \cup
  {[BaseParams EXCEPT !.GuestInfo = [isNil |-> FALSE, m |-> [k \in {<<"a">>} |-> "v"]]]}

NoLocal == [finder |-> 0, newFinder |-> 0, dc |-> Nil, folder |-> Nil, cluster |-> Nil,
            resourcePool |-> Nil, configSpec |-> ZeroConfigSpec, task |-> Nil]
NoRet == [val |-> Nil, err |-> Nil]

\* the error of a call to the server: a NotAuthenticated fault when the server
\* no longer holds the session, the call's own failure, or none
RemoteErrs(failure) == (IF serverAuth THEN {Nil} ELSE {"NotAuthenticated"}) \cup {failure}

VsIdle ==
  /\ sess = "new"
  /\ loginCalls = 0
  /\ serverAuth = FALSE
  /\ expiries = 0
  /\ connectErr = "none"
  /\ kaInstalled = FALSE
  /\ vs = NoCache
  /\ finders = 0
  /\ cacheWrites = 0
  /\ requests = {}
  /\ kaPc = "idle"
  /\ probes = 0
  /\ kaErr = Nil
  /\ kaRet = "none"
  /\ notAuthProbes = 0
  /\ reLogins = 0
  /\ kaLoginErr = "none"
  /\ pc = [c \in Callers |-> "idle"]
  /\ op = [c \in Callers |-> "none"]
  /\ arg = [c \in Callers |-> BaseParams]
  /\ local = [c \in Callers |-> NoLocal]
  /\ ret = [c \in Callers |-> NoRet]
  /\ log = [c \in Callers |-> <<>>]
  /\ nops = [c \in Callers |-> 0]

\* a plausible slip: connect tries the login a second time when it fails
connectLoginsRetry(outcome) ==
  IF outcome = "login failed" THEN 2 ELSE IF outcome = "ok" THEN 1 ELSE 0

\* the calls of login connect makes: none when url.Parse or vim25.NewClient
\* fails (it has returned by then), else the one of "return login(ctx)"
connectLogins(outcome) == IF outcome \in {"bad url", "no client"} THEN 0 ELSE 1

\* NewSession / connect: the URL is parsed, the client is made, the keepalive
\* handler is installed and login is called; the first failure is returned
Connect ==
  /\ sess = "new"
  /\ \E outcome \in {"bad url", "no client", "login failed", "ok"} :
       /\ sess' = IF outcome = "ok" THEN "authenticated" ELSE "failed"
       /\ loginCalls' = loginCalls + connectLogins(outcome)
       /\ serverAuth' = (outcome = "ok")
       /\ connectErr' = IF outcome = "ok" THEN Nil ELSE outcome
       /\ kaInstalled' = (outcome \in {"login failed", "ok"})
  /\ UNCHANGED <<expiries, vs, finders, cacheWrites, requests, kaVars, callers, callVars, bkVars, bdVars>>

\* the server drops the session (idle timeout, restart, administrator)
Expire ==
  /\ sess = "authenticated"
  /\ serverAuth
  /\ expiries < MaxExpiries
  /\ serverAuth' = FALSE
  /\ expiries' = expiries + 1
  /\ UNCHANGED <<sess, loginCalls, connectErr, kaInstalled, vs, finders, cacheWrites, requests, kaVars, callers, callVars, bkVars, bdVars>>

\* the keepalive handler up to its login: methods.GetCurrentTime, and the
\* classification of its error.  The timer of session.KeepAliveHandler fires
\* the handler again only while the handler has returned no error.
KeepaliveProbe ==
  /\ sess = "authenticated"
  /\ kaInstalled
  /\ kaPc = "idle"
  /\ kaRet \in {"none", Nil}
  /\ probes < MaxProbes
  /\ \E e \in (IF serverAuth THEN {Nil, "NoPermission"} ELSE {"NotAuthenticated"}) \cup {"network"} :
       /\ kaErr' = e
       /\ notAuthProbes' = IF e = "NotAuthenticated" THEN notAuthProbes + 1 ELSE notAuthProbes
       /\ IF e = Nil
          THEN kaPc' = "idle" /\ kaRet' = Nil
          ELSE IF isNotAuthenticated(e)
               THEN kaPc' = "login" /\ kaRet' = kaRet
               ELSE kaPc' = "idle" /\ kaRet' = keepaliveReturn(e, Nil)
  /\ probes' = probes + 1
  /\ UNCHANGED <<srvVars, vs, finders, cacheWrites, requests, reLogins, kaLoginErr, callers, callVars,
                 bkVars, bdVars>>

\* the keepalive handler from its login on: login(ctx) with the credentials
\* of connect, logged either way, and return nil
KeepaliveLogin ==
  /\ kaPc = "login"
  /\ \E e \in {Nil, "login failed"} :
       /\ serverAuth' = (serverAuth \/ e = Nil)
       /\ kaLoginErr' = e
       /\ kaRet' = keepaliveReturn(kaErr, e)
  /\ loginCalls' = loginCalls + 1
  /\ reLogins' = reLogins + 1
  /\ kaPc' = "idle"
  /\ UNCHANGED <<sess, expiries, connectErr, kaInstalled, vs, finders, cacheWrites, requests, probes,
                 kaErr, notAuthProbes,
                 callers, callVars, bkVars, bdVars>>

\* a caller starts an operation
Start(c, o, p, first) ==
  /\ sess = "authenticated"
  /\ c \in callers
  /\ pc[c] = "idle"
  /\ nops[c] < MaxOps
  /\ op' = [op EXCEPT ![c] = o]
  /\ arg' = [arg EXCEPT ![c] = p]
  /\ pc' = [pc EXCEPT ![c] = first]
  /\ local' = [local EXCEPT ![c] = NoLocal]
  /\ ret' = [ret EXCEPT ![c] = NoRet]
  /\ log' = [log EXCEPT ![c] = <<>>]
  /\ nops' = [nops EXCEPT ![c] = nops[c] + 1]
  /\ UNCHANGED <<srvVars, vs, finders, cacheWrites, requests, kaVars, callers, bkVars, bdVars>>

StartGetFinder(c) == Start(c, "getFinder", BaseParams, "gf_getFinder")
StartVirtualMachine(c) == Start(c, "VirtualMachine", BaseParams, "vm_getFinder")
\* a plausible slip: CreateVM asks for the folder before the finder
StartCreateVMAtFolder(c) == \E p \in SessParams : Start(c, "CreateVM", p, "cv_vmFolder")

StartCreateVM(c) == \E p \in SessParams : Start(c, "CreateVM", p, "cv_getFinder")

\* the operation of caller c returns (nil, e)
Fail(c, e, step) ==
  /\ pc' = [pc EXCEPT ![c] = "idle"]
  /\ ret' = [ret EXCEPT ![c] = [val |-> Nil, err |-> e]]
  /\ log' = [log EXCEPT ![c] = Append(log[c], step)]
  /\ local' = [local EXCEPT ![c] = NoLocal]

\* the operation of caller c goes on with the next step
Goto(c, next, step) ==
  /\ pc' = [pc EXCEPT ![c] = next]
  /\ log' = [log EXCEPT ![c] = Append(log[c], step)]
  /\ ret' = ret

\* the places getFinder is called from, and where each goes on
FinderSites == {"gf_getFinder", "vm_getFinder", "cv_getFinder"}
StoreSite(site) ==
  CASE site = "gf_getFinder" -> "gf_store"
    [] site = "vm_getFinder" -> "vm_store"
    [] site = "cv_getFinder" -> "cv_store"
\* a plausible slip: CreateVM goes from the finder straight to the cluster
AfterFinderSkipFolder(site) ==
  CASE site \in {"gf_getFinder", "gf_store"} -> "gf_return"
    [] site \in {"vm_getFinder", "vm_store"} -> "vm_lookup"
    [] site \in {"cv_getFinder", "cv_store"} -> "cv_cluster"

AfterFinder(site) ==
  CASE site \in {"gf_getFinder", "gf_store"} -> "gf_return"
    [] site \in {"vm_getFinder", "vm_store"} -> "vm_lookup"
    [] site \in {"cv_getFinder", "cv_store"} -> "cv_vmFolder"

\* getFinder up to the assignments: the test of vs.finder, find.NewFinder and
\* finder.DefaultDatacenter
GetFinder(c) ==
  /\ pc[c] \in FinderSites
  /\ IF finderCached(vs)
     THEN /\ local' = [local EXCEPT ![c].finder = vs.finder]
          /\ Goto(c, AfterFinder(pc[c]), "getFinder")
          /\ UNCHANGED finders
     ELSE /\ finders' = finders + 1
          /\ \E e \in RemoteErrs("no default datacenter") :
               IF e # Nil
               THEN Fail(c, e, "getFinder")
               ELSE /\ local' = [local EXCEPT ![c].newFinder = finders + 1, ![c].dc = "dc"]
                    /\ pc' = [pc EXCEPT ![c] = StoreSite(pc[c])]
                    /\ UNCHANGED <<ret, log>>
  /\ UNCHANGED <<srvVars, vs, cacheWrites, requests, kaVars, callers, op, arg, nops, bkVars, bdVars>>

\* a plausible slip: the finder is cached and the datacenter is not
StoreFinderOnly(c) ==
  /\ pc[c] \in {"gf_store", "vm_store", "cv_store"}
  /\ vs' = [finder |-> local[c].newFinder, datacenter |-> vs.datacenter]
  /\ cacheWrites' = cacheWrites + 1
  /\ local' = [local EXCEPT ![c].finder = local[c].newFinder]
  /\ Goto(c, AfterFinder(pc[c]), "getFinder")
  /\ UNCHANGED <<srvVars, finders, requests, kaVars, callers, op, arg, nops, bkVars, bdVars>>

\* getFinder from the assignments on: vs.datacenter = dc, vs.finder = finder
\* (two consecutive statements, one step), return vs.finder
StoreFinder(c) ==
  /\ pc[c] \in {"gf_store", "vm_store", "cv_store"}
  /\ vs' = [finder |-> local[c].newFinder, datacenter |-> local[c].dc]
  /\ cacheWrites' = cacheWrites + 1
  /\ local' = [local EXCEPT ![c].finder = local[c].newFinder]
  /\ Goto(c, AfterFinder(pc[c]), "getFinder")
  /\ UNCHANGED <<srvVars, finders, requests, kaVars, callers, op, arg, nops, bkVars, bdVars>>

\* a caller of getFinder alone gets the finder
ReturnFinder(c) ==
  /\ pc[c] = "gf_return"
  /\ pc' = [pc EXCEPT ![c] = "idle"]
  /\ ret' = [ret EXCEPT ![c] = [val |-> local[c].finder, err |-> Nil]]
  /\ local' = [local EXCEPT ![c] = NoLocal]
  /\ UNCHANGED <<srvVars, vs, finders, cacheWrites, requests, kaVars, callers, op, arg, log, nops,
                 bkVars, bdVars>>

\* vmFolder: the folders of the cached datacenter
VmFolder(c) ==
  /\ pc[c] = "cv_vmFolder"
  /\ IF vs.datacenter = Nil
     THEN Fail(c, "datacenter not loaded", "vmFolder")
     ELSE \E e \in RemoteErrs("folders failed") :
            IF e # Nil
            THEN Fail(c, e, "vmFolder")
            ELSE /\ local' = [local EXCEPT ![c].folder = "vmFolder"]
                 /\ Goto(c, "cv_cluster", "vmFolder")
  /\ UNCHANGED <<srvVars, vs, finders, cacheWrites, requests, kaVars, callers, op, arg, nops, bkVars, bdVars>>

\* finder.ClusterComputeResource(vs.ctx, params.ClusterPath)
ClusterComputeResource(c) ==
  /\ pc[c] = "cv_cluster"
  /\ \E e \in RemoteErrs("cluster not found") :
       IF e # Nil
       THEN Fail(c, e, "ClusterComputeResource")
       ELSE /\ local' = [local EXCEPT ![c].cluster = arg[c].ClusterPath]
            /\ Goto(c, "cv_resourcePool", "ClusterComputeResource")
  /\ UNCHANGED <<srvVars, vs, finders, cacheWrites, requests, kaVars, callers, op, arg, nops, bkVars, bdVars>>

\* cluster.ResourcePool(vs.ctx)
ResourcePool(c) ==
  /\ pc[c] = "cv_resourcePool"
  /\ \E e \in RemoteErrs("no resource pool") :
       IF e # Nil
       THEN Fail(c, e, "ResourcePool")
       ELSE /\ local' = [local EXCEPT ![c].resourcePool = "pool"]
            /\ Goto(c, "cv_createConfigSpec", "ResourcePool")
  /\ UNCHANGED <<srvVars, vs, finders, cacheWrites, requests, kaVars, callers, op, arg, nops, bkVars, bdVars>>

\* the outcomes the lookups of createConfigSpec can have now
SpecOutcomes(p) ==
  IF serverAuth
  THEN UNION {Outcomes(vs, {"dc", "net", "src", "dst"}, q) : q \in Orders(KeysOf(p.GuestInfo))}
  ELSE {[dc |-> "NotAuthenticated", newFinder |-> finders + 1, net |-> "NotAuthenticated",
         backing |-> Nil, src |-> "NotAuthenticated", dst |-> "NotAuthenticated", order |-> q] :
          q \in Orders(KeysOf(p.GuestInfo))}

\* vs.createConfigSpec(params)
CreateConfigSpec(c) ==
  /\ pc[c] = "cv_createConfigSpec"
  /\ \E o \in SpecOutcomes(arg[c]) :
       LET r == createConfigSpec(vs, arg[c], [o EXCEPT !.newFinder = finders + 1])
       IN /\ vs' = r.s
          /\ finders' = IF finderCached(vs) THEN finders ELSE finders + 1
          /\ cacheWrites' = IF r.s # vs THEN cacheWrites + 1 ELSE cacheWrites
          /\ IF r.err # Nil
             THEN Fail(c, r.err, "createConfigSpec")
             ELSE /\ local' = [local EXCEPT ![c].configSpec = r.cs]
                  /\ Goto(c, "cv_CreateVM", "createConfigSpec")
  /\ UNCHANGED <<srvVars, requests, kaVars, callers, op, arg, nops, bkVars, bdVars>>

\* folder.CreateVM(vs.ctx, configSpec, resourcePool, nil): the creation request
SubmitCreateVM(c) ==
  /\ pc[c] = "cv_CreateVM"
  /\ \E e \in RemoteErrs("create refused") :
       /\ requests' = requests \cup {[params |-> arg[c],
                                        configSpec |-> local[c].configSpec,
                                        resourcePool |-> local[c].resourcePool,
                                        folder |-> local[c].folder,
                                        accepted |-> (e = Nil)]}
       /\ IF e # Nil
          THEN Fail(c, e, "CreateVM")
          ELSE /\ local' = [local EXCEPT ![c].task = "task"]
               /\ Goto(c, "cv_Wait", "CreateVM")
  /\ UNCHANGED <<srvVars, vs, finders, cacheWrites, kaVars, callers, op, arg, nops, bkVars, bdVars>>

\* task.Wait(vs.ctx)
TaskWait(c) ==
  /\ pc[c] = "cv_Wait"
  /\ \E e \in RemoteErrs("task failed") :
       IF e # Nil
       THEN Fail(c, e, "Wait")
       ELSE Goto(c, "vm_getFinder", "Wait") /\ local' = local
  /\ UNCHANGED <<srvVars, vs, finders, cacheWrites, requests, kaVars, callers, op, arg, nops, bkVars, bdVars>>

\* VirtualMachine from finder.VirtualMachine(vs.ctx, path) on
LookupVirtualMachine(c) ==
  /\ pc[c] = "vm_lookup"
  /\ \E e \in RemoteErrs("vm not found") :
       IF e # Nil
       THEN Fail(c, e, "VirtualMachine")
       ELSE /\ pc' = [pc EXCEPT ![c] = "idle"]
            /\ ret' = [ret EXCEPT ![c] = [val |-> [Name |-> "vm"], err |-> Nil]]
            /\ log' = [log EXCEPT ![c] = Append(log[c], "VirtualMachine")]
            /\ local' = [local EXCEPT ![c] = NoLocal]
  /\ UNCHANGED <<srvVars, vs, finders, cacheWrites, requests, kaVars, callers, op, arg, nops, bkVars, bdVars>>

\* ---------------------------------------------------------- specifications
BkInit == bkIn \in BkCalls /\ BkIdle /\ bdIn = NoBdCall /\ BdIdle /\ VsIdle /\ callers = {}

BkNext ==
  \/ CallParseAgentQueryRules
  \/ CallVmdkFromAgentQueryRules
  \/ CallVmkiteJobs
  \/ CallVmkiteJobsFirst
  \/ CallIsFinished

SpecBk == BkInit /\ [][BkNext]_vars

BdInit ==
  /\ bdIn \in {c \in BdCalls : BdCallOK(c)}
  /\ BdIdle /\ bkIn = NoCall /\ BkIdle /\ VsIdle /\ callers = {}

BdNext == CallCreateConfigSpec \/ CallAddDisk

SpecBuild == BdInit /\ [][BdNext]_vars

\* a session used by one caller at a time, its keepalive handler and the server
Init == VsIdle /\ callers = {"c1"} /\ bkIn = NoCall /\ BkIdle /\ bdIn = NoBdCall /\ BdIdle

CallerNext(c) ==
  \/ StartGetFinder(c)
  \/ StartVirtualMachine(c)
  \/ StartCreateVM(c)
  \/ GetFinder(c)
  \/ StoreFinder(c)
  \/ ReturnFinder(c)
  \/ VmFolder(c)
  \/ ClusterComputeResource(c)
  \/ ResourcePool(c)
  \/ CreateConfigSpec(c)
  \/ SubmitCreateVM(c)
  \/ TaskWait(c)
  \/ LookupVirtualMachine(c)

Next ==
  \/ Connect
  \/ Expire
  \/ KeepaliveProbe
  \/ KeepaliveLogin
  \/ \E c \in Callers : CallerNext(c)

Spec == Init /\ [][Next]_vars

\* a session shared by two goroutines: nothing in Session or getFinder
\* serialises them, so their steps interleave freely
ConcInit == VsIdle /\ callers = Callers /\ bkIn = NoCall /\ BkIdle /\ bdIn = NoBdCall /\ BdIdle

ConcNext ==
  \/ Connect
  \/ Expire
  \/ \E c \in Callers :
       \/ StartGetFinder(c)
       \/ StartVirtualMachine(c)
       \/ GetFinder(c)
       \/ StoreFinder(c)
       \/ ReturnFinder(c)
       \/ LookupVirtualMachine(c)

SpecConc == ConcInit /\ [][ConcNext]_vars

\* ------------------------------------------------ claims: package buildkite
\* rule r has the form key=value for this key (the key has no "=" in it)
IsKV(r, key) == Len(r) > Len(key) /\ SubSeq(r, 1, Len(key) + 1) = key \o <<"=">>
\* ... and then its value is whatever follows that "="
ValueAfter(r, key) == SubSeq(r, Len(key) + 2, Len(r))
Matching(rules, key) == {i \in 1..Len(rules) : IsKV(rules[i], key)}
Least(S) == CHOOSE i \in S : \A j \in S : i <= j
Greatest(S) == CHOOSE i \in S : \A j \in S : j <= i
FirstValueOf(rules, key) ==
  IF Matching(rules, key) = {} THEN <<>> ELSE ValueAfter(rules[Least(Matching(rules, key))], key)
LastValueOf(rules, key) ==
  IF Matching(rules, key) = {} THEN <<>> ELSE ValueAfter(rules[Greatest(Matching(rules, key))], key)
HasNoEq(r) == \A i \in 1..Len(r) : r[i] # "="
Recognized(r) == IsKV(r, VmdkKey) \/ IsKV(r, GuestidKey)

\* the jobs of the listing, build by build
ListedJobs == IF bkIn.list.builds = <<>> THEN <<>> ELSE bkIn.list.builds[1].Jobs \o bkIn.list.builds[2].Jobs
RulesOfJob(id) == (CHOOSE i \in 1..Len(ListedJobs) : ListedJobs[i].ID = id)
CompleteRules(rules) == LastValueOf(rules, VmdkKey) # <<>> /\ LastValueOf(rules, GuestidKey) # <<>>
CompleteJob(id) == CompleteRules(ListedJobs[RulesOfJob(id)].AgentQueryRules)

\* C1 (as claimed, of every definition of VmkiteJobs in the repository): every
\* job VmkiteJobs returns comes from agent query rules that give both a
\* non-empty disk image and a non-empty guest identity; a job whose rules
\* leave either empty is never in the result.
C1_ReturnedJobsComplete ==
  /\ \A i \in 1..Len(retJobs.jobs) :
       /\ retJobs.jobs[i].Metadata.VMDK # <<>>
       /\ retJobs.jobs[i].Metadata.GuestID # <<>>
       /\ CompleteJob(retJobs.jobs[i].ID)
  /\ \A i \in 1..Len(retFirstJobs.jobs) : CompleteJob(retFirstJobs.jobs[i].ID)

\* C3 (as claimed): the value parseAgentQueryRules returns for a recognized
\* key is the value of the FIRST rule whose key matches.
C3_FirstOccurrenceWins ==
  "parse" \in bkDone =>
    /\ retMetadata.VMDK = FirstValueOf(bkIn.rules, VmdkKey)
    /\ retMetadata.GuestID = FirstValueOf(bkIn.rules, GuestidKey)

\* C3 (amended): the value parseAgentQueryRules returns for a recognized key
\* is the value of the LAST rule whose key matches (later occurrences
\* overwrite earlier ones); only vmdkFromAgentQueryRules, the decoder of the
\* first definition, returns the value of the first vmkite-vmdk rule.
C3_LastOccurrenceWins ==
  /\ "parse" \in bkDone =>
       /\ retMetadata.VMDK = LastValueOf(bkIn.rules, VmdkKey)
       /\ retMetadata.GuestID = LastValueOf(bkIn.rules, GuestidKey)
  /\ "vmdk" \in bkDone => retVmdk = FirstValueOf(bkIn.rules, VmdkKey)

\* C3 witness: a key occurs twice with different values and the later one is returned
C3_Witness ==
  /\ "parse" \in bkDone
  /\ "vmdk" \in bkDone
  /\ Cardinality(Matching(bkIn.rules, VmdkKey)) >= 2
  /\ FirstValueOf(bkIn.rules, VmdkKey) # LastValueOf(bkIn.rules, VmdkKey)
  /\ retMetadata.VMDK = LastValueOf(bkIn.rules, VmdkKey)
  /\ retVmdk = FirstValueOf(bkIn.rules, VmdkKey)

\* C4: each rule is split at its first "=" only: a rule vmkite-vmdk=v (or
\* vmkite-guestid=v) that is the last one for its key sets the field to all
\* of v, further "=" included; rules with no "=" and rules whose key is not
\* exactly a recognized key change nothing: decoding the list without them
\* gives the same intent, and a list of only such rules gives the empty one.
C4_SplitAtFirstEq ==
  "parse" \in bkDone =>
    /\ \A i \in 1..Len(bkIn.rules) :
         /\ (IsKV(bkIn.rules[i], VmdkKey) /\ \A j \in (i + 1)..Len(bkIn.rules) : ~IsKV(bkIn.rules[j], VmdkKey))
              => retMetadata.VMDK = ValueAfter(bkIn.rules[i], VmdkKey)
         /\ (IsKV(bkIn.rules[i], GuestidKey) /\ \A j \in (i + 1)..Len(bkIn.rules) : ~IsKV(bkIn.rules[j], GuestidKey))
              => retMetadata.GuestID = ValueAfter(bkIn.rules[i], GuestidKey)
    /\ retMetadata = parseAgentQueryRules(SelectSeq(bkIn.rules, Recognized))
    /\ (\A i \in 1..Len(bkIn.rules) : ~Recognized(bkIn.rules[i])) => retMetadata = EmptyMetadata

\* C4 witness: a value with a further "=", a rule without "=" and an
\* unrecognized key have all been decoded
C4_Witness ==
  /\ "parse" \in bkDone
  /\ retMetadata.VMDK = <<"a", "=", "b">>
  /\ \E i \in 1..Len(bkIn.rules) : HasNoEq(bkIn.rules[i])
  /\ \E i \in 1..Len(bkIn.rules) : ~HasNoEq(bkIn.rules[i]) /\ ~Recognized(bkIn.rules[i])

\* C5: IsFinished returns false when the job of the re-fetched build with
\* job.ID (the first one in build order) is scheduled or running, true when
\* it is in any other state, and false without an error when the build has
\* no job with job.ID.
C5_IsFinished ==
  ("finished" \in bkDone /\ ~bkIn.get.err) =>
    LET js == bkIn.get.build.Jobs
        found == {i \in 1..Len(js) : js[i].ID = bkIn.job}
    IN /\ retFinished.err = FALSE
       /\ found = {} => retFinished.finished = FALSE
       /\ found # {} =>
            /\ js[Least(found)].State \in {"scheduled", "running"} => retFinished.finished = FALSE
            /\ js[Least(found)].State \notin {"scheduled", "running"} => retFinished.finished = TRUE

\* C5 witness: the job was found in state scheduled and reported not finished
C5_Witness ==
  /\ "finished" \in bkDone
  /\ ~bkIn.get.err
  /\ \E i \in 1..Len(bkIn.get.build.Jobs) :
       bkIn.get.build.Jobs[i].ID = bkIn.job /\ bkIn.get.build.Jobs[i].State = "scheduled"
  /\ retFinished = [finished |-> FALSE, err |-> FALSE]

\* ------------------------------------------------ claims: the spec builder
BuiltDevices == [i \in 1..Len(retSpec.cs.DeviceChange) |-> retSpec.cs.DeviceChange[i].Device]
BuiltTypes == [i \in 1..Len(BuiltDevices) |-> BuiltDevices[i].Type]

\* C6: whenever createConfigSpec succeeds, its device list holds exactly one
\* network adapter, one SCSI controller, one disk and one USB controller, in
\* that order, and the disk's controller key is the key of the SCSI controller
\* that precedes it (and of no other device of the list).
C6_DeviceList ==
  ("spec" \in bdDone /\ retSpec.err = Nil) =>
    /\ Len(BuiltDevices) = 4
    /\ BuiltTypes[1] = "VirtualVmxnet3"
    /\ BuiltTypes[2] \in SCSITypes
    /\ BuiltTypes[3] = "VirtualDisk"
    /\ BuiltTypes[4] = "VirtualUSBController"
    /\ BuiltDevices[3].ControllerKey = BuiltDevices[2].Key
    /\ \A i \in 1..4 : BuiltDevices[i].Key = BuiltDevices[3].ControllerKey => i = 2
    /\ \A i \in 1..4 : retSpec.cs.DeviceChange[i].Operation = "add"

\* C6 witness: a build that succeeded, starting without a cached finder
C6_Witness ==
  /\ "spec" \in bdDone
  /\ retSpec.err = Nil
  /\ bdIn.s = NoCache
  /\ Len(retSpec.cs.DeviceChange) = 4

\* C7: addDisk on a device list without a SCSI controller fails and returns
\* no device list; a list it returns ends with a disk whose controller key is
\* the key of a SCSI controller of the list it was given.
C7_AddDiskNeedsController ==
  "disk" \in bdDone =>
    /\ (\A i \in 1..Len(bdIn.devices) : bdIn.devices[i].Type \notin SCSITypes)
         => retDisk.err # Nil /\ retDisk.devices = <<>>
    /\ retDisk.err = Nil =>
         /\ Len(retDisk.devices) = Len(bdIn.devices) + 1
         /\ retDisk.devices[Len(retDisk.devices)].Type = "VirtualDisk"
         /\ \E i \in 1..Len(bdIn.devices) :
              /\ bdIn.devices[i].Type \in SCSITypes
              /\ bdIn.devices[i].Key = retDisk.devices[Len(retDisk.devices)].ControllerKey

\* C7 witness: both lookups succeeded on a non-empty list without a SCSI
\* controller, and addDisk returned the controller error
C7_Witness ==
  /\ "disk" \in bdDone
  /\ bdIn.devices # <<>>
  /\ \A i \in 1..Len(bdIn.devices) : bdIn.devices[i].Type \notin SCSITypes
  /\ bdIn.o.dc = Nil /\ bdIn.o.src = Nil
  /\ retDisk.err = "no available SCSI controller"
  /\ retDisk.devices = <<>>

\* C8: the extra configuration createConfigSpec builds is the three fixed
\* entries (agent token, VM name, source disk path), then one entry per key of
\* params.GuestInfo, then the ethernet0.pciSlotNumber entry, which is the only
\* entry with that key: 4 + |GuestInfo| entries (4 for a nil or empty map).
C8_ExtraConfig ==
  ("spec" \in bdDone /\ retSpec.err = Nil) =>
    LET ec == retSpec.cs.ExtraConfig
        gi == bdIn.params.GuestInfo
    IN /\ Len(ec) = 4 + Cardinality(KeysOf(gi))
       /\ ec[1] = [Key |-> TokenKey, Value |-> bdIn.params.BuildkiteAgentToken]
       /\ ec[2] = [Key |-> NameKey, Value |-> bdIn.params.Name]
       /\ ec[3] = [Key |-> VmdkInfoKey, Value |-> bdIn.params.SrcDiskPath]
       /\ \A k \in KeysOf(gi) :
            Cardinality({i \in 4..(Len(ec) - 1) :
                           ec[i] = [Key |-> GuestinfoPrefix \o k, Value |-> gi.m[k]]}) = 1
       /\ {i \in 1..Len(ec) : ec[i].Key = PciSlotKey} = {Len(ec)}
       /\ ec[Len(ec)].Value = "32"

\* C8 witness: a build with two caller-supplied keys produced six entries
C8_Witness ==
  /\ "spec" \in bdDone
  /\ retSpec.err = Nil
  /\ Cardinality(KeysOf(bdIn.params.GuestInfo)) = 2
  /\ Len(retSpec.cs.ExtraConfig) = 6

\* ----------------------------------------------------- claims: the session
\* C2 (as claimed): every creation request CreateVM hands to the cluster comes
\* from params whose GuestID and SrcDiskPath are both non-empty.
C2_NoIncompleteRequest ==
  \A r \in requests :
    r.accepted => r.params.GuestID # "" /\ r.params.SrcDiskPath # ""

\* C9: the keepalive handler calls login exactly for the probes that failed
\* with a NotAuthenticated fault, once each: the login attempts made so far
\* (with the one the handler is about to make) are as many as such probes, the
\* handler is at its login only after such a probe, and nothing else logs in
\* after the login of connect.
C9_ReLoginExactlyOnNotAuth ==
  /\ reLogins + (IF kaPc = "login" THEN 1 ELSE 0) = notAuthProbes
  /\ kaPc = "login" => kaErr = "NotAuthenticated"
  /\ (kaPc = "idle" /\ kaErr # "NotAuthenticated") => reLogins = notAuthProbes
  /\ sess = "authenticated" => loginCalls = 1 + reLogins

\* C9 witness: two probes have run, one failed with NotAuthenticated and was
\* followed by one login, the other failed otherwise or succeeded
C9_Witness ==
  /\ probes = 2
  /\ kaPc = "idle"
  /\ notAuthProbes = 1
  /\ reLogins = 1
  /\ kaErr \in {Nil, "NoPermission", "network"}

\* C10 (as claimed): no operation a caller issues (getFinder, CreateVM,
\* VirtualMachine) returns a NotAuthenticated error.
C10_NoExpirySurfaced == \A c \in Callers : ret[c].err # "NotAuthenticated"

\* C11: the keepalive handler returns no error in every case (probe success,
\* non-auth probe failure, successful and failed re-login), so the timer never
\* stops probing and the session stays authenticated and in use.
C11_HandlerReturnsNil ==
  /\ kaRet \in {"none", Nil}
  /\ (probes > 0 /\ kaPc = "idle") => kaRet = Nil
  /\ probes > 0 => sess = "authenticated"

\* a re-login failed, the handler returned nil all the same, and an operation
\* of a caller on the session has reported its own error
C11_Witness ==
  /\ kaLoginErr = "login failed"
  /\ kaPc = "idle"
  /\ kaRet = Nil
  /\ sess = "authenticated"
  /\ \E c \in callers : pc[c] = "idle" /\ ret[c].err = "NotAuthenticated"

CreateVMSteps ==
  <<"getFinder", "vmFolder", "ClusterComputeResource", "ResourcePool", "createConfigSpec",
    "CreateVM", "Wait", "getFinder", "VirtualMachine">>

IsPrefix(s, t) == Len(s) <= Len(t) /\ s = SubSeq(t, 1, Len(s))

\* the step an error comes from (a NotAuthenticated fault can come from any)
StepOfErr(e) ==
  CASE e = "no default datacenter" -> "getFinder"
    [] e \in {"datacenter not loaded", "folders failed"} -> "vmFolder"
    [] e = "cluster not found" -> "ClusterComputeResource"
    [] e = "no resource pool" -> "ResourcePool"
    [] e \in {"network not found", "no backing", "datastore not found"} -> "createConfigSpec"
    [] e = "create refused" -> "CreateVM"
    [] e = "task failed" -> "Wait"
    [] e = "vm not found" -> "VirtualMachine"
    [] OTHER -> "any"

C13_StepsInOrder ==
  \A c \in callers : op[c] = "CreateVM" =>
    /\ IsPrefix(log[c], CreateVMSteps)
    /\ (pc[c] = "idle" /\ ret[c].err = Nil) =>
         log[c] = CreateVMSteps /\ ret[c].val = [Name |-> "vm"]
    /\ (pc[c] = "idle" /\ ret[c].err # Nil) =>
         /\ log[c] # <<>>
         /\ ret[c].val = Nil
         /\ StepOfErr(ret[c].err) \in {"any", log[c][Len(log[c])]}

\* C13: CreateVM runs finder, folder, cluster, resource pool, config spec,
\* creation submit, task wait and handle lookup in this order, each at most
\* once, and stops at the first step that fails with that step's error; a
\* request is submitted only after every lookup and the spec build succeeded,
\* and no step takes a submitted request back.
C13_FixedOrder ==
  /\ [](C13_StepsInOrder /\
        \A r \in requests : /\ r.folder # Nil
                             /\ r.resourcePool # Nil
                             /\ Len(r.configSpec.DeviceChange) = 4
                             /\ r.configSpec.ExtraConfig # <<>>)
  /\ [][requests \subseteq requests']_vars

\* a CreateVM whose creation task failed: the request stays submitted, the
\* call returned the task's error and made no handle lookup
C13_Witness ==
  \E c \in callers :
    /\ op[c] = "CreateVM"
    /\ pc[c] = "idle"
    /\ ret[c] = [val |-> Nil, err |-> "task failed"]
    /\ log[c] = SubSeq(CreateVMSteps, 1, 7)
    /\ \E r \in requests : r.params = arg[c] /\ r.accepted

\* ------------------------------------------- claims: the order of the jobs
\* C14: the jobs VmkiteJobs returns are an order-preserving subsequence of the
\* jobs of the listing, taken build by build and job by job: there is a
\* strictly increasing map from the positions of the result to the positions
\* of the listing that preserves the job ids, so no job is reordered or
\* returned twice.
C14_OrderPreserved ==
  "jobs" \in bkDone =>
    \E f \in [1..Len(retJobs.jobs) -> 1..Len(ListedJobs)] :
      /\ \A i \in 1..Len(retJobs.jobs) : ListedJobs[f[i]].ID = retJobs.jobs[i].ID
      /\ \A i, j \in 1..Len(retJobs.jobs) : i < j => f[i] < f[j]

\* three jobs in two builds; the middle one is dropped and the other two are
\* returned, one from each build
C14_Witness ==
  /\ "jobs" \in bkDone
  /\ Len(ListedJobs) = 3
  /\ bkIn.list.builds[1].Jobs # <<>>
  /\ bkIn.list.builds[2].Jobs # <<>>
  /\ Len(retJobs.jobs) = 2
  /\ retJobs.jobs[1].ID = ListedJobs[1].ID
  /\ retJobs.jobs[2].ID = ListedJobs[3].ID
  /\ retJobs.jobs[1].BuildNumber # retJobs.jobs[2].BuildNumber

\* C15 (as claimed): under every interleaving of the callers of one session,
\* the default datacenter is resolved successfully and the finder/datacenter
\* fields are written at most once (a resolution that succeeded is written by
\* the step that follows it).
C15_PopulatedAtMostOnce ==
  cacheWrites + Cardinality({c \in callers : pc[c] \in {"gf_store", "vm_store", "cv_store"}}) <= 1

\* ------------------------------------- claims: failures of the spec builder
\* the lookup of the call that fails, if any: the default datacenter counts
\* only when no finder is cached
FailureOf(call) ==
  LET errs == {call.o.net, call.o.backing, call.o.src, call.o.dst} \cup
              (IF call.s.finder # 0 THEN {} ELSE {call.o.dc})
  IN IF errs \subseteq {Nil} THEN Nil ELSE CHOOSE e \in errs : e # Nil

\* C16: createConfigSpec fails exactly when one of its lookups fails, and then
\* returns that lookup's error together with the empty config spec: no device,
\* no extra configuration and no scalar field.
C16_ErrorMeansEmptySpec ==
  "spec" \in bdDone =>
    /\ retSpec.err = FailureOf(bdIn)
    /\ retSpec.err # Nil =>
         /\ retSpec.cs.DeviceChange = <<>>
         /\ retSpec.cs.ExtraConfig = <<>>
         /\ retSpec.cs.GuestId = ""
         /\ retSpec.cs.Name = ""
         /\ retSpec.cs.MemoryMB = 0
         /\ retSpec.cs.NumCPUs = 0
         /\ retSpec.cs.NumCoresPerSocket = 0
         /\ retSpec.cs = ZeroConfigSpec

\* the source datastore of the disk is not found: the network card and the
\* SCSI controller were built, and nothing of them is returned
C16_Witness ==
  /\ "spec" \in bdDone
  /\ bdIn.o.src # Nil
  /\ bdIn.o.net = Nil
  /\ retSpec.err = bdIn.o.src
  /\ retSpec.cs.DeviceChange = <<>>

\* ------------------------------------------- claims: session establishment
\* C17 (as claimed): once NewSession has returned, connect has issued the
\* login exactly once, whether it failed or succeeded.
C17_LoginExactlyOnce == sess # "new" => loginCalls - reLogins = 1

\* C17 (amended): connect issues the login at most once and never retries:
\* exactly once when the client setup succeeds, and not at all when url.Parse
\* or vim25.NewClient fails; the first failure is what NewSession returns, and
\* a session that is established is authenticated with the keepalive handler
\* installed.
C17_LoginAtMostOnce ==
  sess # "new" =>
    /\ loginCalls - reLogins = (IF connectErr \in {"bad url", "no client"} THEN 0 ELSE 1)
    /\ connectErr \in {Nil, "bad url", "no client", "login failed"}
    /\ sess = "failed" <=> connectErr # Nil
    /\ sess = "failed" => reLogins = 0 /\ ~serverAuth
    /\ sess = "authenticated" => kaInstalled

\* the one login of connect failed and NewSession returned its error
C17_Witness ==
  /\ sess = "failed"
  /\ connectErr = "login failed"
  /\ loginCalls = 1
  /\ kaInstalled

\* C18: on a session used by one caller at a time, the cached finder is set
\* if and only if the cached datacenter is set; a getFinder that finds no
\* cached finder resolves the default datacenter, and when that fails it
\* returns the error and leaves both fields unset, so that the next getFinder
\* resolves again.
C18_FinderIffDatacenter ==
  /\ [](vs.finder # 0 <=> vs.datacenter # Nil)
  /\ [][\A c \in callers :
          (pc[c] \in FinderSites /\ pc'[c] # pc[c] /\ vs.finder = 0) =>
            /\ finders' = finders + 1
            /\ pc'[c] = "idle" => (ret'[c].err # Nil /\ ret'[c].val = Nil /\ vs' = NoCache)]_vars

\* a resolution failed and left the cache empty; the next getFinder resolved
\* again and filled both fields
C18_Witness ==
  /\ finders = 2
  /\ cacheWrites = 1
  /\ vs.finder # 0
  /\ vs.datacenter # Nil
  /\ \E c \in callers : nops[c] = 2

\* ------------------------------------ claims: keys of the extra configuration
\* C19 (as claimed): the extra-configuration list createConfigSpec builds
\* never holds two entries with the same key, whatever params.GuestInfo is.
C19_NoDuplicateKeys ==
  ("spec" \in bdDone /\ retSpec.err = Nil) =>
    \A i, j \in 1..Len(retSpec.cs.ExtraConfig) :
      retSpec.cs.ExtraConfig[i].Key = retSpec.cs.ExtraConfig[j].Key => i = j

\* --------------------------------------------- claims: vmFolder in CreateVM
\* C20: within CreateVM, vmFolder is reached only after getFinder succeeded on
\* the session, so the cached datacenter is set when vmFolder tests it and
\* CreateVM never returns the "datacenter not loaded" error.
C20_DatacenterLoaded ==
  \A c \in callers : op[c] = "CreateVM" =>
    /\ pc[c] = "cv_vmFolder" => (vs.datacenter # Nil /\ log[c] = <<"getFinder">>)
    /\ ret[c].err # "datacenter not loaded"

\* a CreateVM on a fresh session: its own getFinder filled the cache, and
\* vmFolder has found the folder
C20_Witness ==
  \E c \in callers :
    /\ op[c] = "CreateVM"
    /\ nops[c] = 1
    /\ cacheWrites = 1
    /\ pc[c] = "cv_cluster"
    /\ local[c].folder = "vmFolder"

====
